---- MODULE Spec2Model ----
(***************************************************************************)
(* Model of grammers-tl-parser's Type::from_str (src/tl/ty.rs): the parser *)
(* of one TL type signature such as `!X`, `vector<int>`, `ns.Name`.        *)
(*                                                                         *)
(* A string is a sequence of characters; a character is a one-element     *)
(* token ("a", "B", "<", ...).  Rust indexes a &str by BYTE offset, so    *)
(* the model keeps byte offsets apart from character positions: the       *)
(* character "e'" stands for U+00E9, which UTF-8 encodes in two bytes.    *)
(***************************************************************************)
EXTENDS Integers, Sequences, FiniteSets, TLC

\* ------------------------------------------------------------------ bounds
\* Longest input over the core alphabet.
MaxLen == 7
\* Longest input over the wide alphabet.
MaxWideLen == 4

\* The characters that drive the grammar, and one lowercase letter.
CoreChars == {"a", "!", "<", ">", "."}
\* An uppercase letter, a digit, the underscore and a non-ASCII lowercase
\* letter beside them.
WideChars == CoreChars \cup {"B", "1", "_", "e'"}

Strs(A, n) == UNION {[1..k -> A] : k \in 0..n}
Inputs == Strs(CoreChars, MaxLen) \cup Strs(WideChars, MaxWideLen)

\* ---------------------------------------------------- Option and Result
None == <<>>
Some(x) == <<x>>
Ok(t) == [tag |-> "Ok", val |-> t]
Err(e) == [tag |-> "Err", err |-> e]
\* A panic (index out of range, unwrap on None) unwinds out of from_str.
Panic == [tag |-> "Panic"]

\* ParamParseError, the two kinds from_str returns.
ParamParseError == {"Empty", "BadGeneric"}

\* struct Type
Type(namespace, name, bare, generic_ref, generic_arg) ==
    [namespace |-> namespace, name |-> name, bare |-> bare,
     generic_ref |-> generic_ref, generic_arg |-> generic_arg]

\* ------------------------------------------------------------ str helpers
\* Bytes of one character in UTF-8.
Utf8Len(c) == IF c = "e'" THEN 2 ELSE 1

RECURSIVE len(_)
\* str::len: the length in bytes.
len(s) == IF s = <<>> THEN 0 ELSE Utf8Len(Head(s)) + len(Tail(s))

\* str::is_char_boundary
is_char_boundary(s, b) == \E k \in 0..Len(s) : len(SubSeq(s, 1, k)) = b

\* Index<Range<usize>> for str: &s[lo..hi] with byte offsets; panics when
\* lo > hi, hi > len or an offset is inside a character.
slice(s, lo, hi) ==
    IF lo <= hi /\ hi <= len(s) /\ is_char_boundary(s, lo) /\ is_char_boundary(s, hi)
    THEN LET i == CHOOSE k \in 0..Len(s) : len(SubSeq(s, 1, k)) = lo
             j == CHOOSE k \in 0..Len(s) : len(SubSeq(s, 1, k)) = hi
         IN Ok(SubSeq(s, i + 1, j))
    ELSE Panic

\* str::starts_with(char)
starts_with(s, c) == Len(s) > 0 /\ s[1] = c

ends_with_always(s, c) == TRUE
ends_with_anywhere(s, c) == \E i \in 1..Len(s) : s[i] = c
\* str::ends_with(char)
ends_with(s, c) == Len(s) > 0 /\ s[Len(s)] = c

rfind(s, c) ==
    IF \E i \in 1..Len(s) : s[i] = c
    THEN LET i == CHOOSE i \in 1..Len(s) : s[i] = c /\ \A j \in (i+1)..Len(s) : s[j] # c
         IN Some(len(SubSeq(s, 1, i - 1)))
    ELSE None
\* str::find(char): the byte offset of the first match.
find(s, c) ==
    IF \E i \in 1..Len(s) : s[i] = c
    THEN LET i == CHOOSE i \in 1..Len(s) : s[i] = c /\ \A j \in 1..(i-1) : s[j] # c
         IN Some(len(SubSeq(s, 1, i - 1)))
    ELSE None

RECURSIVE split_skip_empty(_, _)
split_skip_empty(s, c) ==
    IF \E i \in 1..Len(s) : s[i] = c
    THEN LET i == CHOOSE i \in 1..Len(s) : s[i] = c /\ \A j \in 1..(i-1) : s[j] # c
         IN (IF i = 1 THEN <<>> ELSE <<SubSeq(s, 1, i - 1)>>)
                \o split_skip_empty(SubSeq(s, i + 1, Len(s)), c)
    ELSE IF s = <<>> THEN <<>> ELSE <<s>>
RECURSIVE split(_, _)
\* str::split(char), collected: always at least one part, empty parts kept.
split(s, c) ==
    IF \E i \in 1..Len(s) : s[i] = c
    THEN LET i == CHOOSE i \in 1..Len(s) : s[i] = c /\ \A j \in 1..(i-1) : s[j] # c
         IN <<SubSeq(s, 1, i - 1)>> \o split(SubSeq(s, i + 1, Len(s)), c)
    ELSE <<s>>

is_lowercase(c) == c \in {"a", "e'"}
\* char::is_ascii_lowercase
is_ascii_lowercase(c) == c \in {"a"}

\* ------------------------------------------------------ Type::from_str
strip_generic_ref_all(ty) ==
    IF starts_with(ty, "!")
    THEN LET n == CHOOSE n \in 1..Len(ty) :
                    /\ \A i \in 1..n : ty[i] = "!"
                    /\ (n < Len(ty) => ty[n + 1] # "!")
         IN [ty |-> slice(ty, n, len(ty)), generic_ref |-> TRUE]
    ELSE [ty |-> Ok(ty), generic_ref |-> FALSE]
strip_generic_ref_keep(ty) == [ty |-> Ok(ty), generic_ref |-> starts_with(ty, "!")]
\* Parse `!type`: the rest of the string and the generic_ref flag.
strip_generic_ref(ty) ==
    IF starts_with(ty, "!")
    THEN [ty |-> slice(ty, 1, len(ty)), generic_ref |-> TRUE]
    ELSE [ty |-> Ok(ty), generic_ref |-> FALSE]

has_empty_last_part(namespace) == namespace[Len(namespace)] = <<>>
\* namespace.iter().any(|part| part.is_empty())
has_empty_part(namespace) == \E i \in 1..Len(namespace) : namespace[i] = <<>>

pop_front(v) ==
    IF v = <<>> THEN [rest |-> v, popped |-> None]
    ELSE [rest |-> Tail(v), popped |-> Some(Head(v))]
\* Vec::pop: removes the last element, None when the vector is empty.
pop(v) ==
    IF v = <<>> THEN [rest |-> v, popped |-> None]
    ELSE [rest |-> SubSeq(v, 1, Len(v) - 1), popped |-> Some(v[Len(v)])]

last_char(name) == IF name = <<>> THEN None ELSE Some(name[Len(name)])
\* name.chars().next()
first_char(name) == IF name = <<>> THEN None ELSE Some(name[1])

\* Parse `ns1.ns2.name` and build the Type; each unwrap panics on None.
parse_path(ty, generic_ref, generic_arg) ==
    LET namespace == split(ty, ".")
    IN IF has_empty_part(namespace) THEN Err("Empty")
       ELSE LET p == pop(namespace)
            IN IF p.popped = None THEN Panic
               ELSE LET name == p.popped[1]
                        c == first_char(name)
                    IN IF c = None THEN Panic
                       ELSE Ok(Type(p.rest, name, is_ascii_lowercase(c[1]),
                                    generic_ref, generic_arg))

wrap_error(r) == Err("BadGeneric")
\* The `?` on the recursive call: the error returned early, unchanged.
question_mark(r) == r

generic_body_from_pos(ty, pos) ==
    IF len(ty) = 0 THEN Panic ELSE slice(ty, pos, len(ty) - 1)
generic_body_keep_close(ty, pos) == slice(ty, pos + 1, len(ty))
\* &ty[pos + 1..ty.len() - 1]: the text between the '<' at pos and the last
\* character; the subtraction panics on an empty string.
generic_body(ty, pos) ==
    IF len(ty) = 0 THEN Panic ELSE slice(ty, pos + 1, len(ty) - 1)

RECURSIVE from_str(_)
\* Parses a single type `type<generic_arg>`.
from_str(ty0) ==
    LET m == strip_generic_ref(ty0)
    IN IF m.ty.tag = "Panic" THEN Panic
       ELSE
       LET ty == m.ty.val
           found == find(ty, "<")
       IN IF found = None THEN parse_path(ty, m.generic_ref, None)
          ELSE IF ~ends_with(ty, ">") THEN Err("BadGeneric")
          ELSE
          LET pos == found[1]
              head == slice(ty, 0, pos)
              body == generic_body(ty, pos)
          IN IF head.tag = "Panic" \/ body.tag = "Panic" THEN Panic
             ELSE LET arg == from_str(body.val)
                  IN IF arg.tag = "Panic" THEN Panic
                     ELSE IF arg.tag = "Err" THEN question_mark(arg)
                     ELSE parse_path(head.val, m.generic_ref, Some(arg.val))

RECURSIVE from_str_calls(_)
\* The arguments of the calls of from_str that one call on ty0 makes, itself
\* first: it calls itself once, on the generic body, when the string left
\* after `!` has a '<', ends with '>' and both slices are taken.
from_str_calls(ty0) ==
    LET m == strip_generic_ref(ty0)
    IN IF m.ty.tag = "Panic" THEN <<ty0>>
       ELSE
       LET ty == m.ty.val
           found == find(ty, "<")
       IN IF found = None \/ ~ends_with(ty, ">") THEN <<ty0>>
          ELSE
          LET pos == found[1]
              head == slice(ty, 0, pos)
              body == generic_body(ty, pos)
          IN IF head.tag = "Panic" \/ body.tag = "Panic" THEN <<ty0>>
             ELSE <<ty0>> \o from_str_calls(body.val)

\* ------------------------------------------------------------ the machine
\* calls: the argument of every call of from_str made so far, outermost first.
VARIABLES input, result, pc, calls
vars == <<input, result, pc, calls>>

Init ==
    /\ input \in Inputs
    /\ result = None
    /\ pc = "call"
    /\ calls = <<>>

\* One call of Type::from_str on the input.
Parse ==
    /\ pc = "call"
    /\ result' = Some(from_str(input))
    /\ calls' = from_str_calls(input)
    /\ pc' = "done"
    /\ UNCHANGED input

Next == Parse

Spec == Init /\ [][Next]_vars

TypeOK ==
    /\ input \in Inputs
    /\ pc \in {"call", "done"}
    /\ (pc = "call") = (result = None)
    /\ (pc = "call") = (calls = <<>>)

\* ------------------------------------------------- vocabulary of the claims
\* The claims speak of characters and positions, not of byte offsets: the
\* definitions below restate their terms without the parser's helpers.
AsciiLower == {"a"}
HasChar(s, c) == \E i \in 1..Len(s) : s[i] = c
\* The string left after removing one leading '!'.
Rest(s) == IF s # <<>> /\ s[1] = "!" THEN SubSeq(s, 2, Len(s)) ELSE s
FirstPos(s, c) == CHOOSE i \in 1..Len(s) : s[i] = c /\ \A j \in 1..(i - 1) : s[j] # c
\* The string has the shape head<body>: a '<' in it and '>' at its end.
Bracketed(s) == HasChar(s, "<") /\ s[Len(s)] = ">"
HeadOf(s) == IF HasChar(s, "<") THEN SubSeq(s, 1, FirstPos(s, "<") - 1) ELSE s
BodyOf(s) == SubSeq(s, FirstPos(s, "<") + 1, Len(s) - 1)
\* Some dotted component of h is empty.
HasEmptyComponent(h) ==
    \/ h = <<>>
    \/ h[1] = "."
    \/ h[Len(h)] = "."
    \/ \E i \in 1..(Len(h) - 1) : h[i] = "." /\ h[i + 1] = "."
Dots(h) == {i \in 1..Len(h) : h[i] = "."}
\* Position of the k-th dot of h; 0 before the first, Len(h) + 1 after the last.
DotAt(h, k) ==
    IF k = 0 THEN 0
    ELSE IF k > Cardinality(Dots(h)) THEN Len(h) + 1
    ELSE CHOOSE p \in Dots(h) : Cardinality({q \in Dots(h) : q <= p}) = k
\* The k-th dotted component of h, counted from 1.
Component(h, k) == SubSeq(h, DotAt(h, k - 1) + 1, DotAt(h, k) - 1)
Done == pc = "done"
Res == result[1]
Succeeded == Done /\ Res.tag = "Ok"

\* C1: a non-empty string without '.', '<', '>', '!' parses to the plain type
\* of that name: no namespace, no generic argument, not a generic reference,
\* bare iff its first character is an ASCII lowercase letter.
C1_Simple ==
    (Done /\ input # <<>> /\ \A i \in 1..Len(input) : input[i] \notin {".", "<", ">", "!"})
        => Res = Ok(Type(<<>>, input, input[1] \in AsciiLower, FALSE, None))
C1_Witness ==
    /\ Done /\ Len(input) >= 2
    /\ \A i \in 1..Len(input) : input[i] \notin {".", "<", ">", "!"}
    /\ input[1] \in AsciiLower /\ input[Len(input)] \notin AsciiLower
    /\ Res.tag = "Ok"

\* The parse of s gets as far as splitting its head on '.'.
ReachesPath(s) ==
    \/ ~HasChar(Rest(s), "<")
    \/ Bracketed(Rest(s)) /\ from_str(BodyOf(Rest(s))).tag = "Ok"

\* C2: once the dotted-path stage is reached, the parse fails with Empty
\* exactly when some component of the head is empty, and succeeds otherwise.
C2_EmptyComponent ==
    (Done /\ ReachesPath(input)) =>
        IF HasEmptyComponent(HeadOf(Rest(input)))
        THEN Res = Err("Empty")
        ELSE Res.tag = "Ok"
C2_Witness ==
    /\ Done /\ ReachesPath(input)
    /\ HasChar(input, "<")
    /\ HeadOf(Rest(input)) # <<>>
    /\ HasEmptyComponent(HeadOf(Rest(input)))
    /\ Res = Err("Empty")

RECURSIVE BadBracketReached(_)
\* At this level or at a generic argument the recursion reaches, the string
\* left after one leading '!' has a '<' and does not end with '>'.
BadBracketReached(s) ==
    /\ HasChar(Rest(s), "<")
    /\ \/ ~Bracketed(Rest(s))
       \/ BadBracketReached(BodyOf(Rest(s)))

\* C3: the parse fails with BadGeneric exactly when a level the recursion
\* reaches has a '<' and no '>' at its end; an input with a '<' whose last
\* character is not '>' always fails with BadGeneric.
C3_BadGeneric ==
    Done =>
        /\ (Res = Err("BadGeneric")) <=> BadBracketReached(input)
        /\ (HasChar(input, "<") /\ input[Len(input)] # ">") => Res = Err("BadGeneric")
C3_Witness ==
    /\ Done /\ Bracketed(Rest(input))
    /\ HasEmptyComponent(HeadOf(Rest(input)))
    /\ BadBracketReached(BodyOf(Rest(input)))
    /\ Res = Err("BadGeneric")

\* C4: when h has no '<' and h and a both parse, h<a> parses to the parse of
\* h with the parse of a as its generic argument; a is the text between the
\* first '<' and the final '>'.
C4_GenericArg ==
    (Done /\ HasChar(input, "<") /\ input[Len(input)] = ">") =>
        LET h == SubSeq(input, 1, FirstPos(input, "<") - 1)
            a == SubSeq(input, FirstPos(input, "<") + 1, Len(input) - 1)
        IN (from_str(h).tag = "Ok" /\ from_str(a).tag = "Ok") =>
              Res = Ok([from_str(h).val EXCEPT !.generic_arg = Some(from_str(a).val)])
C4_Witness ==
    /\ Succeeded /\ HasChar(input, "<")
    /\ Res.val.generic_arg # None
    /\ Res.val.generic_arg[1].generic_arg # None
    /\ Res.val.generic_arg[1].generic_arg[1].bare

\* C5: a successful parse is a generic reference iff the input begins with
\* '!'; one '!' put before a string that does not begin with '!' keeps the
\* error, or changes generic_ref to true and nothing else; a second leading
\* '!' stays in the head.
C5_GenericRef ==
    Done =>
        /\ Res.tag = "Ok" => (Res.val.generic_ref <=> (input # <<>> /\ input[1] = "!"))
        /\ (Len(input) >= 1 /\ input[1] = "!" /\ ~(Len(input) >= 2 /\ input[2] = "!")) =>
              LET r == from_str(Tail(input))
              IN IF r.tag = "Ok"
                 THEN /\ ~r.val.generic_ref
                      /\ Res = Ok([r.val EXCEPT !.generic_ref = TRUE])
                 ELSE Res = r
        /\ (Res.tag = "Ok" /\ Len(input) >= 2 /\ input[1] = "!" /\ input[2] = "!") =>
              Head(Res.val.namespace \o <<Res.val.name>>)[1] = "!"
C5_Witness ==
    /\ Succeeded /\ input[1] = "!"
    /\ Res.val.namespace # <<>>
    /\ Res.val.generic_arg # None
    /\ Res.val.bare

\* The name the claims expect: the last dotted component of the head.
NameOf(s) ==
    LET h == HeadOf(Rest(s)) IN Component(h, Cardinality(Dots(h)) + 1)

\* C6: on success, bare is true iff the first character of the last dotted
\* component of the head is an ASCII lowercase letter, whatever the
\* namespace, the leading '!' and the generic argument are.
C6_Bare ==
    Succeeded =>
        /\ Res.val.name = NameOf(input)
        /\ Res.val.bare <=> (NameOf(input)[1] \in AsciiLower)
        /\ Res.val.bare <=> (Res.val.name[1] \in AsciiLower)
C6_Witness ==
    /\ Succeeded /\ input[1] = "!"
    /\ Res.val.namespace # <<>> /\ Res.val.namespace[1][1] \in AsciiLower
    /\ Res.val.name[1] \notin AsciiLower /\ Res.val.name[1] # "B"
    /\ ~Res.val.bare

\* C7: on success, a head of n dotted components gives the last one as name
\* and the n-1 before it as namespace, in the order written.
C7_Namespace ==
    Succeeded =>
        LET h == HeadOf(Rest(input))
            n == Cardinality(Dots(h)) + 1
        IN /\ Res.val.name = Component(h, n)
           /\ Len(Res.val.namespace) = n - 1
           /\ \A k \in 1..(n - 1) : Res.val.namespace[k] = Component(h, k)
C7_Witness ==
    /\ Succeeded
    /\ Len(Res.val.namespace) = 2
    /\ Res.val.namespace[1] # Res.val.namespace[2]
    /\ Res.val.namespace[2] # Res.val.name
    /\ Res.val.namespace[1] # Res.val.name

RECURSIVE Valid(_)
\* The data-model invariants of a Type, at every nesting level.
Valid(t) ==
    /\ t.name # <<>>
    /\ \A i \in 1..Len(t.namespace) : t.namespace[i] # <<>>
    /\ t.generic_arg # None => Valid(t.generic_arg[1])

\* C8: every Type a successful parse returns has a non-empty name, no empty
\* namespace component, and a generic argument that is valid in turn.
C8_Valid == Succeeded => Valid(Res.val)
C8_Witness ==
    /\ Succeeded
    /\ Res.val.generic_arg # None
    /\ Res.val.generic_arg[1].namespace # <<>>

\* C9: when the string left after one leading '!' has the shape head<body>
\* and the body fails to parse, the outer parse fails with the same error,
\* also when the head is invalid.
C9_Propagate ==
    (Done /\ Bracketed(Rest(input)) /\ from_str(BodyOf(Rest(input))).tag # "Ok") =>
        /\ Res = from_str(BodyOf(Rest(input)))
        /\ Res.tag = "Err"
C9_Witness ==
    /\ Done /\ Bracketed(Rest(input))
    /\ Bracketed(Rest(BodyOf(Rest(input))))
    /\ from_str(BodyOf(Rest(input))) = Err("Empty")
    /\ ~HasEmptyComponent(HeadOf(Rest(input)))
    /\ Res = Err("Empty")

RECURSIVE IsType(_)
\* The value is a Type: its fields have the types of the struct.
IsType(t) ==
    /\ DOMAIN t = {"namespace", "name", "bare", "generic_ref", "generic_arg"}
    /\ t.bare \in BOOLEAN /\ t.generic_ref \in BOOLEAN
    /\ Len(t.generic_arg) <= 1
    /\ t.generic_arg # None => IsType(t.generic_arg[1])

\* C10: every call returns a Type, Empty or BadGeneric and never panics: no
\* slice is out of range, pop finds a component, name has a first character.
C10_Total ==
    Done =>
        \/ Res.tag = "Ok" /\ IsType(Res.val)
        \/ Res.tag = "Err" /\ Res.err \in ParamParseError
C10_Witness ==
    /\ Succeeded
    /\ Res.val.name[1] = "e'"
    /\ Res.val.generic_arg # None

Count(s, c) == Cardinality({i \in 1..Len(s) : s[i] = c})

\* C11: every recursive call gets a string at least two characters (and two
\* bytes) shorter than its caller's, and the number of recursive calls is at
\* most the number of '<' in the input.
C11_Shrinks ==
    Done =>
        /\ calls[1] = input
        /\ \A i \in 2..Len(calls) :
              /\ Len(calls[i]) <= Len(calls[i - 1]) - 2
              /\ len(calls[i]) <= len(calls[i - 1]) - 2
        /\ Len(calls) - 1 <= Count(input, "<")
C11_Witness ==
    /\ Done /\ Len(calls) = 3
    /\ Count(input, "<") = 3
    /\ Count(input, ">") = 2
    /\ Res = Err("BadGeneric")

RECURSIVE Depth(_)
\* The number of nested generic_arg levels of a Type.
Depth(t) == IF t.generic_arg = None THEN 0 ELSE 1 + Depth(t.generic_arg[1])

RECURSIVE Flat(_)
\* The components of a path, one after the other.
Flat(path) == IF path = <<>> THEN <<>> ELSE Head(path) \o Flat(Tail(path))

RECURSIVE CountIn(_, _)
\* The occurrences of c in the namespace components and names of a Type, at
\* every level.
CountIn(t, c) ==
    Count(Flat(t.namespace) \o t.name, c)
    + (IF t.generic_arg = None THEN 0 ELSE CountIn(t.generic_arg[1], c))

\* C12: on success the result has as many nested generic_arg levels as the
\* input has '<', so generic_arg is absent iff the input has no '<'; each
\* level closes with one '>' and every other '>' stays in a name or a
\* namespace component.
C12_Depth ==
    Succeeded =>
        /\ Depth(Res.val) = Count(input, "<")
        /\ (Res.val.generic_arg = None) <=> ~HasChar(input, "<")
        /\ CountIn(Res.val, "<") = 0
        /\ CountIn(Res.val, ">") = Count(input, ">") - Count(input, "<")
C12_Witness ==
    /\ Succeeded
    /\ Depth(Res.val) = 2
    /\ Count(input, ">") = 3
    /\ Count(Res.val.generic_arg[1].name, ">") = 1

RECURSIVE Join(_)
\* The components of a path joined with '.'.
Join(path) ==
    IF Len(path) = 1 THEN path[1] ELSE path[1] \o <<".">> \o Join(Tail(path))

RECURSIVE Render(_)
\* A Type written back as a signature: '!' for a generic reference, the
\* namespace and the name joined with '.', the generic argument in '<' '>'.
Render(t) ==
    (IF t.generic_ref THEN <<"!">> ELSE <<>>)
        \o Join(t.namespace \o <<t.name>>)
        \o (IF t.generic_arg = None THEN <<>>
            ELSE <<"<">> \o Render(t.generic_arg[1]) \o <<">">>)

\* The strings one deletion of a character away from s.
Neighbours(s) ==
    {SubSeq(s, 1, i - 1) \o SubSeq(s, i + 1, Len(s)) : i \in 1..Len(s)}

\* C13: a successful parse loses nothing: rendering the result gives the
\* input back, so no other string (here: none one deletion away) parses to
\* the same value.
C13_Lossless ==
    Succeeded =>
        /\ Render(Res.val) = input
        /\ \A other \in Neighbours(input) \ {input} : from_str(other) # Res
C13_Witness ==
    /\ Succeeded
    /\ Res.val.generic_ref
    /\ Res.val.generic_arg # None
    /\ Res.val.generic_arg[1].namespace # <<>>
    /\ Render(Res.val) = input

====
